---- MODULE Spec2Model ----
(***************************************************************************)
(* A model of pybryt/student.py: the StudentImplementation artifact, its   *)
(* check dispatcher, and the module-level inline `check` context manager.  *)
(*                                                                         *)
(* The inline check is a generator wrapped by contextlib.contextmanager:   *)
(* __enter__ runs the generator to its first yield, __exit__ resumes it    *)
(* (next() when the block completed, throw() when the block raised) and    *)
(* raises RuntimeError when the generator yields a second time.            *)
(***************************************************************************)
EXTENDS Integers, Sequences, FiniteSets, TLC

(* ------------------------------ bounds -------------------------------- *)
MaxRefLen == 2
MaxDepth == 2
MaxCollectors == 2
MaxObs == 1
MaxFp == 1

(* --------------------------- input values ----------------------------- *)
\* A python value that may be passed as (an element of) `ref`:
\* a ReferenceImplementation object, a str, or an object of another type.
RefObj(n) == [k |-> "ref", n |-> n]
StrObj(n) == [k |-> "str", n |-> n]
OtherObj == [k |-> "other", n |-> "x"]

Elems == {RefObj("r1"), RefObj("r2"), StrObj("a"), OtherObj}
TupleElems == {RefObj("r1"), StrObj("a")}

SeqsUpTo(S, n) == UNION {[1..m -> S] : m \in 0..n}

\* The shapes of the argument `ref`: a bare object, a list, or another
\* iterable that is not a list (a tuple).
Scalar(e) == [shape |-> "obj", items |-> <<e>>]
ListOf(s) == [shape |-> "list", items |-> s]
TupleOf(s) == [shape |-> "tuple", items |-> s]

RefInputs ==
    {Scalar(e) : e \in Elems}
    \cup {ListOf(s) : s \in SeqsUpTo(Elems, MaxRefLen)}
    \cup {TupleOf(s) : s \in SeqsUpTo(TupleElems, MaxRefLen)}

Groups == {"None", "g"}

\* Footprints: lists of (value, timestamp) whose timestamps never decrease.
Footprints ==
    {fp \in SeqsUpTo({"v"} \X (0..MaxFp), MaxFp) :
        \A i \in 1..Len(fp) : \A j \in i..Len(fp) : fp[i][2] <= fp[j][2]}

(* ------------------- external collaborators (reference.py) ------------ *)
\* ReferenceImplementation.load(identifier): the persisted reference of
\* that name.
Load(s) == [k |-> "ref", n |-> s.n]

\* ReferenceImplementation.run(values, group=group): a Result, deterministic
\* in the reference, the footprint and the group.
Run(r, values, group) == [ref |-> r, values |-> values, group |-> group]

\* ReferenceResult.messages
Messages(res) == [of |-> res.ref.n, n |-> Len(res.values), group |-> res.group]

(* ----------------------- python type predicates ----------------------- *)
IsRefImpl(ref) == ref.shape = "obj" /\ ref.items[1].k = "ref"
IsStr(ref) == ref.shape = "obj" /\ ref.items[1].k = "str"
IsList(ref) == ref.shape = "list"
Iterable(ref) == ref.shape \in {"list", "tuple"}

AllRefs(s) == \A i \in 1..Len(s) : s[i].k = "ref"
AllStrs(s) == \A i \in 1..Len(s) : s[i].k = "str"

RECURSIVE LoadAll(_)
LoadAll(s) == IF s = <<>> THEN <<>> ELSE <<Load(Head(s))>> \o LoadAll(Tail(s))

(* ---------------------- StudentImplementation ------------------------- *)
\* StudentImplementation.from_footprint(footprint, steps): cls(None) leaves
\* nb and nb_path None, then steps and values are assigned as given.
from_footprint(footprint, steps) ==
    [nb |-> "None", nb_path |-> "None", values |-> footprint, steps |-> steps]

\* [r.run(self.values, group=group) for r in ref]: the elements are visited
\* in order; an element without a run method (a str, any other object)
\* raises AttributeError after the runs of the elements before it.
RECURSIVE RunEach(_, _, _)
RunEach(s, values, group) ==
    IF s = <<>> THEN [err |-> "none", res |-> <<>>, calls |-> <<>>]
    ELSE IF Head(s).k # "ref"
         THEN [err |-> "AttributeError", res |-> <<>>, calls |-> <<>>]
         ELSE LET rest == RunEach(Tail(s), values, group)
                  this == Run(Head(s), values, group)
              IN [err |-> rest.err,
                  res |-> IF rest.err = "none" THEN <<this>> \o rest.res ELSE <<>>,
                  calls |-> <<this>> \o rest.calls]

\* A dispatcher that hands back the bare Result for a one-element list.
NoRet == [shape |-> "none", items |-> <<>>]
StudentImplementation_check_unwrap(self, ref, group) ==
    IF IsRefImpl(ref) \/ (IsList(ref) /\ Len(ref.items) = 1 /\ AllRefs(ref.items))
    THEN LET r == Run(ref.items[1], self.values, group)
         IN [err |-> "none", ret |-> [shape |-> "result", items |-> <<r>>], calls |-> <<r>>]
    ELSE IF IsList(ref)
    THEN LET rs == RunEach(ref.items, self.values, group)
         IN [err |-> rs.err,
             ret |-> IF rs.err = "none" THEN [shape |-> "list", items |-> rs.res] ELSE NoRet,
             calls |-> rs.calls]
    ELSE [err |-> "TypeError", ret |-> NoRet, calls |-> <<>>]

\* StudentImplementation.check(self, ref, group): err is the exception
\* raised ("none" when it returns), ret the returned value (a bare Result or
\* a list of Results), calls the run invocations made, in order.
StudentImplementation_check(self, ref, group) ==
    IF IsRefImpl(ref)
    THEN LET r == Run(ref.items[1], self.values, group)
         IN [err |-> "none", ret |-> [shape |-> "result", items |-> <<r>>], calls |-> <<r>>]
    ELSE IF IsList(ref)
    THEN LET rs == RunEach(ref.items, self.values, group)
         IN [err |-> rs.err,
             ret |-> IF rs.err = "none" THEN [shape |-> "list", items |-> rs.res] ELSE NoRet,
             calls |-> rs.calls]
    ELSE [err |-> "TypeError", ret |-> NoRet, calls |-> <<>>]

(* ------------------------- inline check: pure parts ------------------- *)
\* Lines 187-197: the normalisation of `ref`. err is the exception raised
\* ("none" when validation passes), ref the value of the local `ref` after it.
Normalize(ref) ==
    LET r1 == IF IsStr(ref) THEN ListOf(<<Load(ref.items[1])>>) ELSE ref
    IN  IF IsList(r1) /\ Len(r1.items) = 0
        THEN [err |-> "ValueError", ref |-> r1]
        ELSE IF IsList(r1) /\ ~AllRefs(r1.items) /\ ~AllStrs(r1.items)
        THEN [err |-> "TypeError", ref |-> r1]
        ELSE LET r2 == IF IsList(r1) /\ ~AllRefs(r1.items)
                       THEN ListOf(LoadAll(r1.items)) ELSE r1
             IN  IF ~Iterable(r2)
                 THEN [err |-> "TypeError", ref |-> r2]  \* 'X' object is not iterable
                 ELSE IF ~AllRefs(r2.items)
                 THEN [err |-> "TypeError", ref |-> r2]
                 ELSE [err |-> "none", ref |-> r2]

\* max(t[1] for t in observed): the largest timestamp; ValueError when the
\* footprint is empty.
RECURSIVE MaxOf(_)
MaxOf(obs) ==
    IF Len(obs) = 1 THEN obs[1][2]
    ELSE LET m == MaxOf(Tail(obs)) IN IF obs[1][2] >= m THEN obs[1][2] ELSE m

PyMax(obs) ==
    IF obs = <<>> THEN [err |-> "ValueError", val |-> 0]
    ELSE [err |-> "none", val |-> MaxOf(obs)]

\* A report that lists the messages last reference first.
RECURSIVE MessagesOf_reversed(_)
MessagesOf_reversed(res) ==
    IF res = <<>> THEN <<>>
    ELSE MessagesOf_reversed(Tail(res)) \o <<Messages(Head(res))>>

\* [r.messages for r in res]
RECURSIVE MessagesOf(_)
MessagesOf(res) ==
    IF res = <<>> THEN <<>> ELSE <<Messages(Head(res))>> \o MessagesOf(Tail(res))

(* ------------- StudentImplementation: construction -------------------- *)
\* The object cls(None) returns: nb and nb_path are None, and steps and
\* values are not set (steps -1 stands for the missing attributes). It is
\* also the value of `stu` before any artifact is made.
NoStu == [nb |-> "None", nb_path |-> "None", values |-> <<>>, steps |-> -1]

\* The kinds of argument path_or_nb that __init__ tells apart: None, a str
\* (a path), a nbformat.NotebookNode, and anything else.
ArgNone == [k |-> "None", n |-> "x"]
NbObj(n) == [k |-> "nb", n |-> n]
InitArgs == {ArgNone, StrObj("p1"), NbObj("nb1"), OtherObj}

\* nbformat.read(path_or_nb, as_version=NBFORMAT_VERSION): the notebook
\* stored at that path.
NbRead(path) == NbObj(path.n)

\* execute_notebook(nb, nb_path, ...): runs the notebook and returns
\* (steps, values); fp is the footprint this run of the notebook observes,
\* steps the timestamp the engine has reached at the end of the run.
execute_notebook(nb, nb_path, fp) ==
    [steps |-> IF fp = <<>> THEN 0 ELSE fp[Len(fp)][2], values |-> fp]

\* One call of execute_notebook, as recorded in the call log.
ExecCall(nb, nb_path) == [nb |-> nb.n, nb_path |-> nb_path]

\* self._execute(...) on an object whose nb and nb_path are set.
Executed(nb, nb_path, fp) ==
    LET run == execute_notebook(nb, nb_path, fp)
    IN  [err |-> "none",
         self |-> [nb |-> nb.n, nb_path |-> nb_path,
                   values |-> run.values, steps |-> run.steps],
         executes |-> <<ExecCall(nb, nb_path)>>]

\* A constructor that executes whatever is not None or a path as a notebook.
StudentImplementation_init_duck(path_or_nb, fp) ==
    IF path_or_nb.k = "None"
    THEN [err |-> "none", self |-> NoStu, executes |-> <<>>]
    ELSE IF path_or_nb.k = "str"
    THEN Executed(NbRead(path_or_nb), path_or_nb.n, fp)
    ELSE Executed(path_or_nb, "", fp)

\* StudentImplementation(path_or_nb): the object made, the exception raised,
\* and the calls of execute_notebook made on the way.
StudentImplementation_init(path_or_nb, fp) ==
    IF path_or_nb.k = "None"
    THEN [err |-> "none", self |-> NoStu, executes |-> <<>>]
    ELSE IF path_or_nb.k = "str"
    THEN Executed(NbRead(path_or_nb), path_or_nb.n, fp)
    ELSE IF path_or_nb.k = "nb"
    THEN Executed(path_or_nb, "", fp)
    ELSE [err |-> "TypeError", self |-> NoStu, executes |-> <<>>]

(* ------------- StudentImplementation: serialization ------------------- *)
\* dill writes the object's attributes as a byte string. The model's byte
\* string is framed by the pickle PROTO (128) and STOP (46) opcodes and
\* holds one byte per attribute: nb, nb_path, steps (offset by one, so that
\* the unset marker is a byte), the length of values, then each pair as an
\* opcode byte (118) and its timestamp.
NbNames == <<"None", "nb1", "p1">>
PathNames == <<"None", "", "p1">>
CodeOf(names, s) == CHOOSE i \in 1..Len(names) : names[i] = s

RECURSIVE PickleValues(_)
PickleValues(values) ==
    IF values = <<>> THEN <<>>
    ELSE <<118, Head(values)[2]>> \o PickleValues(Tail(values))

\* dill.dumps(self)
dill_dumps(self) ==
    <<128, CodeOf(NbNames, self.nb), CodeOf(PathNames, self.nb_path),
      self.steps + 1, Len(self.values)>>
        \o PickleValues(self.values) \o <<46>>

\* dill.loads(bits): the object the byte string describes; UnpicklingError
\* when the byte string is not a whole pickle.
dill_loads(bits) ==
    LET n == Len(bits)
        wellFormed ==
            /\ n >= 6
            /\ bits[1] = 128
            /\ bits[n] = 46
            /\ bits[2] \in 1..Len(NbNames)
            /\ bits[3] \in 1..Len(PathNames)
            /\ n = 6 + 2 * bits[5]
            /\ \A i \in 1..bits[5] : bits[4 + 2 * i] = 118
    IN  IF wellFormed
        THEN [err |-> "none",
              obj |-> [nb |-> NbNames[bits[2]], nb_path |-> PathNames[bits[3]],
                       values |-> [i \in 1..bits[5] |-> <<"v", bits[5 + 2 * i]>>],
                       steps |-> bits[4] - 1]]
        ELSE [err |-> "UnpicklingError", obj |-> NoStu]

\* base64.b64encode(bits).decode("ascii"): every three bytes become four
\* characters of the base64 alphabet, written here by their index 0..63;
\* a last group of one or two bytes is padded with "=" (64).
RECURSIVE b64encode(_)
b64encode(bits) ==
    IF bits = <<>> THEN <<>>
    ELSE IF Len(bits) = 1
    THEN <<bits[1] \div 4, (bits[1] % 4) * 16, 64, 64>>
    ELSE IF Len(bits) = 2
    THEN <<bits[1] \div 4, (bits[1] % 4) * 16 + bits[2] \div 16,
           (bits[2] % 16) * 4, 64>>
    ELSE <<bits[1] \div 4, (bits[1] % 4) * 16 + bits[2] \div 16,
           (bits[2] % 16) * 4 + bits[3] \div 64, bits[3] % 64>>
            \o b64encode(SubSeq(bits, 4, Len(bits)))

\* base64.b64decode(data.encode("ascii")): binascii.Error when the text is
\* not a whole number of four-character groups or is padded wrongly.
RECURSIVE b64decode(_)
b64decode(data) ==
    IF data = <<>> THEN [err |-> "none", bits |-> <<>>]
    ELSE IF Len(data) < 4 \/ data[1] = 64 \/ data[2] = 64
         \/ (data[3] = 64 /\ data[4] # 64)
         \/ (data[4] = 64 /\ Len(data) > 4)
    THEN [err |-> "binascii.Error", bits |-> <<>>]
    ELSE LET b1 == data[1] * 4 + data[2] \div 16
             b2 == (data[2] % 16) * 16 + data[3] \div 4
             b3 == (data[3] % 4) * 64 + data[4]
             rest == b64decode(SubSeq(data, 5, Len(data)))
         IN  IF data[3] = 64 THEN [err |-> "none", bits |-> <<b1>>]
             ELSE IF data[4] = 64 THEN [err |-> "none", bits |-> <<b1, b2>>]
             ELSE [err |-> rest.err,
                   bits |-> IF rest.err = "none" THEN <<b1, b2, b3>> \o rest.bits
                            ELSE <<>>]

\* self.dumps()
dumps(self) == b64encode(dill_dumps(self))

\* A loads that hands the text to dill without decoding it.
loads_undecoded(data) == dill_loads(data)

\* StudentImplementation.loads(data)
loads(data) ==
    LET d == b64decode(data)
    IN  IF d.err # "none" THEN [err |-> d.err, obj |-> NoStu]
        ELSE dill_loads(d.bits)

\* The pickle file: not written yet, or the bytes self.dump(dest) wrote
\* (`of` remembers the artifact that was dumped).
NoFile == [exists |-> FALSE, bits |-> <<>>, of |-> NoStu]

\* self.dump(dest): the file after the call.
dump(self) == [exists |-> TRUE, bits |-> dill_dumps(self), of |-> self]

\* StudentImplementation.load(file): open() fails when there is no file.
load(f) ==
    IF ~f.exists THEN [err |-> "FileNotFoundError", obj |-> NoStu]
    ELSE dill_loads(f.bits)

(* ------------- StudentImplementation: plagiarism ---------------------- *)
\* create_references(student_impls, **kwargs) (plagiarism.py): one reference
\* synthesized from each submission, under the options given.
create_references(student_impls, kwargs) ==
    [i \in 1..Len(student_impls) |-> [of |-> student_impls[i], kwargs |-> kwargs]]

\* get_impl_results(ref_impl, student_impls, **kwargs) (plagiarism.py): the
\* result of the reference on each submission, in the order given.
get_impl_results(ref_impl, student_impls, kwargs) ==
    [i \in 1..Len(student_impls) |->
        [ref |-> ref_impl, impl |-> student_impls[i], kwargs |-> kwargs]]

NoKwargs == "{}"
KwargSets == {NoKwargs, "{frac: 1}"}
NoSynth == [of |-> NoStu, kwargs |-> NoKwargs]

\* The record of one call to plagiarism.py.
PlagCall(fn, ref_impl, student_impls, kwargs) ==
    [fn |-> fn, ref |-> ref_impl, impls |-> student_impls, kwargs |-> kwargs]

\* A check_plagiarism that compares under the default options.
check_plagiarism_defaults(self, student_impls, kwargs) ==
    LET refs == create_references(<<self>>, kwargs)
    IN  [ret |-> get_impl_results(refs[1], student_impls, NoKwargs),
         calls |-> <<PlagCall("create_references", NoSynth, <<self>>, kwargs),
                     PlagCall("get_impl_results", refs[1], student_impls, NoKwargs)>>]

\* self.check_plagiarism(student_impls, **kwargs)
check_plagiarism(self, student_impls, kwargs) ==
    LET refs == create_references(<<self>>, kwargs)
    IN  [ret |-> get_impl_results(refs[1], student_impls, kwargs),
         calls |-> <<PlagCall("create_references", NoSynth, <<self>>, kwargs),
                     PlagCall("get_impl_results", refs[1], student_impls, kwargs)>>]

(* ------------------------------ state --------------------------------- *)
VARIABLES
    stack,      \* the inline checks entered and not yet exited, innermost last
    tracing,    \* the execution engine's trace slot: the active collector, its frame
    observed,   \* collector -> the list `observed` that collector appends to
    exc,        \* the exception in flight in the running code ("none" if none)
    ev,         \* what the most recent step of the inline check did
    stu,        \* the StudentImplementation the method calls are made on
    out,        \* the outcome of the most recent method call
    file,       \* the pickle file dump writes and load reads
    alias       \* TRUE while the caller of from_footprint holds stu.values

vars == <<stack, tracing, observed, exc, ev, stu, out, file, alias>>

NoTrace == [cir |-> 0, frame |-> 0]
\* The argument of a generator that has not read it yet.
Unread == [shape |-> "unread", items |-> <<>>]

NoEv ==
    [op |-> "none", arg |-> Unread, nested |-> FALSE, created |-> FALSE,
     on |-> FALSE, off |-> FALSE, blockRan |-> FALSE, raised |-> FALSE,
     err |-> "none", norm |-> Unread, built |-> FALSE, stu |-> NoStu,
     printed |-> FALSE, report |-> <<>>, traceAtPrint |-> NoTrace,
     before |-> NoTrace, after |-> NoTrace, collected |-> <<>>, blockObs |-> <<>>,
     yields |-> 0]

NoOut == [op |-> "none", ref |-> Unread, group |-> "None", err |-> "none",
          ret |-> NoRet, calls |-> <<>>, stuBefore |-> NoStu,
          arg |-> ArgNone, executes |-> <<>>, data |-> <<>>, intact |-> FALSE,
          peers |-> <<>>, kwargs |-> NoKwargs, results |-> <<>>]

Init ==
    /\ stack = <<>>
    /\ tracing = NoTrace
    /\ observed = [c \in 1..MaxCollectors |-> <<>>]
    /\ exc = "none"
    /\ ev = NoEv
    /\ stu = NoStu
    /\ out = NoOut
    /\ file = NoFile
    /\ alias = FALSE

(* ---------------- execution engine (execution.py, external) ----------- *)
\* _currently_tracing()
currently_tracing == tracing.cir # 0

\* tracing_on(frame=frame, tracing_func=cir): installs the collector.
tracing_on(frame, cir) == [cir |-> cir, frame |-> frame]

\* tracing_off(frame=frame, save_func=False): removes the trace function.
tracing_off(frame) == NoTrace

\* create_collector(**kwargs): a fresh collector with its own empty list.
\* Collectors are named by the smallest name no suspended generator holds;
\* the list of a collector that nothing refers to any more is dropped.
HeldCols == {stack[i].col : i \in 1..Len(stack)} \ {0}
create_collector == CHOOSE c \in 1..MaxCollectors : c \notin HeldCols /\
                        \A d \in 1..MaxCollectors : d \notin HeldCols => c <= d

\* The lists still referred to once the trace slot is t and the generators
\* holding the collectors in `held` are suspended.
Reachable(obs, t, held) ==
    [c \in 1..MaxCollectors |-> IF c = t.cir \/ c \in held THEN obs[c] ELSE <<>>]

Top == stack[Len(stack)]
Pop == SubSeq(stack, 1, Len(stack) - 1)

\* A suspended generator of the inline check: the yield it is suspended at
\* (line 185 or 204), the argument it was called with and its local `ref`
\* (Unread at line 185, where the generator has not looked at it yet), its
\* collector, and every observation made while its block ran.
Frame(pc, arg, ref, col) ==
    [pc |-> pc, arg |-> arg, ref |-> ref, col |-> col, blockObs |-> <<>>]

(* ------------------------- inline check: actions ---------------------- *)
\* `with check(ref):` is reached: __enter__ runs the generator to its first
\* yield (lines 184-204), or to the exception validation raises. On the
\* path of line 185 the generator has not read `ref` when it yields, so the
\* frame leaves it Unread and check_exit supplies it where it is first read.
check_enter(ref) ==
    /\ exc = "none"
    /\ Len(stack) < MaxDepth
    /\ UNCHANGED <<stu, out, file, alias>>
    /\ LET caller == Len(stack)
           base == [NoEv EXCEPT !.op = "enter", !.before = tracing]
       IN  IF currently_tracing
           THEN \* line 185
                /\ stack' = Append(stack, Frame("y185", Unread, Unread, 0))
                /\ ev' = [base EXCEPT !.nested = TRUE, !.blockRan = TRUE,
                                      !.after = tracing, !.yields = 1]
                /\ UNCHANGED <<tracing, observed, exc>>
           ELSE LET v == Normalize(ref)
                IN  IF v.err # "none"
                    THEN /\ exc' = v.err
                         /\ ev' = [base EXCEPT !.arg = ref, !.err = v.err,
                                               !.after = tracing]
                         /\ UNCHANGED <<stack, tracing, observed>>
                    ELSE \* lines 199-204
                         /\ HeldCols # 1..MaxCollectors
                         /\ observed' = [observed EXCEPT ![create_collector] = <<>>]
                         /\ tracing' = tracing_on(caller, create_collector)
                         /\ stack' = Append(stack,
                                Frame("y204", ref, v.ref, create_collector))
                         /\ ev' = [base EXCEPT !.arg = ref, !.created = TRUE,
                                               !.on = TRUE, !.blockRan = TRUE,
                                               !.norm = v.ref, !.after = tracing',
                                               !.yields = 1]
                         /\ UNCHANGED exc

\* The running code executes a traced step: the active collector appends
\* (value, timestamp) to its list; timestamps never decrease.
LastTs(obs) == IF obs = <<>> THEN 0 ELSE obs[Len(obs)][2]

Trace(ts) ==
    /\ exc = "none"
    /\ currently_tracing
    /\ Len(observed[tracing.cir]) < MaxObs
    /\ \A i \in 1..Len(stack) : Len(stack[i].blockObs) < MaxObs
    /\ ts \in {LastTs(observed[tracing.cir]), LastTs(observed[tracing.cir]) + 1}
    /\ observed' = [observed EXCEPT ![tracing.cir] = Append(@, <<"v", ts>>)]
    /\ stack' = [i \in 1..Len(stack) |->
                    IF stack[i].pc = "y204"
                    THEN [stack[i] EXCEPT !.blockObs = Append(@, <<"v", ts>>)]
                    ELSE stack[i]]
    /\ ev' = [NoEv EXCEPT !.op = "trace"]
    /\ UNCHANGED <<tracing, exc, stu, out, file, alias>>

\* The block of the innermost check raises an exception of its own.
BlockRaise ==
    /\ exc = "none"
    /\ stack # <<>>
    /\ exc' = "BlockError"
    /\ ev' = [NoEv EXCEPT !.op = "raise"]
    /\ UNCHANGED <<stack, tracing, observed, stu, out, file, alias>>

\* The exception in flight is caught by the code it has reached (the
\* enclosing block, or the caller of the outermost check).
Catch ==
    /\ exc # "none"
    /\ exc' = "none"
    /\ ev' = [NoEv EXCEPT !.op = "catch"]
    /\ UNCHANGED <<stack, tracing, observed, stu, out, file, alias>>

ExitEv(f, ref) ==
    [NoEv EXCEPT !.op = "exit", !.arg = ref, !.nested = (f.pc = "y185"),
                 !.created = f.col # 0, !.on = f.col # 0, !.blockRan = TRUE,
                 !.before = tracing, !.blockObs = f.blockObs,
                 !.norm = f.ref, !.yields = 1]

\* Lines 206-210, after the generator is resumed at line 204.
Finish(f) ==
    LET off == tracing_off(Len(stack) - 1)
        obs == observed[f.col]
        m == PyMax(obs)
        s == from_footprint(obs, m.val)
        r == StudentImplementation_check(s, f.ref, "None")
        e0 == [ExitEv(f, f.arg) EXCEPT !.off = TRUE, !.after = off, !.collected = obs]
    IN  /\ tracing' = off
        /\ observed' = Reachable(observed, off, HeldCols \ {f.col})
        /\ IF m.err # "none"
           THEN /\ exc' = m.err
                /\ ev' = [e0 EXCEPT !.err = m.err]
           ELSE IF r.err # "none"
           THEN /\ exc' = r.err
                /\ ev' = [e0 EXCEPT !.err = r.err, !.built = TRUE, !.stu = s]
           ELSE /\ exc' = "none"
                /\ ev' = [e0 EXCEPT !.built = TRUE, !.stu = s, !.printed = TRUE,
                                    !.report = MessagesOf(r.ret.items),
                                    !.traceAtPrint = off]

\* Lines 187-204, after the generator is resumed at line 185 with the
\* argument `ref` it was called with: the code after the first yield runs,
\* and a second yield makes contextmanager raise
\* RuntimeError("generator didn't stop").
FallThrough(f, ref) ==
    LET v == Normalize(ref)
    IN  IF v.err # "none"
        THEN /\ exc' = v.err
             /\ ev' = [ExitEv(f, ref) EXCEPT !.err = v.err, !.after = tracing]
             /\ UNCHANGED <<tracing, observed>>
        ELSE /\ HeldCols # 1..MaxCollectors
             /\ tracing' = tracing_on(Len(stack) - 1, create_collector)
             /\ observed' = Reachable([observed EXCEPT ![create_collector] = <<>>],
                                      tracing', HeldCols)
             /\ exc' = "RuntimeError"
             /\ ev' = [ExitEv(f, ref) EXCEPT !.created = TRUE, !.on = TRUE,
                                             !.err = "RuntimeError", !.norm = v.ref,
                                             !.after = tracing', !.yields = 2]

\* The block of the innermost check completes: __exit__(None, None, None)
\* resumes the generator with next(). ref is the argument the check was
\* entered with.
check_exit(ref) ==
    /\ exc = "none"
    /\ stack # <<>>
    /\ stack' = Pop
    /\ UNCHANGED <<stu, out, file, alias>>
    /\ IF Top.pc = "y185"
       THEN FallThrough(Top, ref)
       ELSE ref = Top.arg /\ Finish(Top)

\* An exception leaves the block of the innermost check: __exit__ throws it
\* into the generator at its yield; nothing there catches it, so it
\* propagates out of the with statement.
check_exit_throw ==
    /\ exc # "none"
    /\ stack # <<>>
    /\ stack' = Pop
    /\ observed' = Reachable(observed, tracing, HeldCols \ {Top.col})
    /\ ev' = [ExitEv(Top, Top.arg) EXCEPT !.raised = TRUE, !.after = tracing]
    /\ UNCHANGED <<tracing, exc, stu, out, file, alias>>

Next ==
    \/ \E ref \in RefInputs : check_enter(ref)
    \/ \E ts \in 0..MaxObs : Trace(ts)
    \/ BlockRaise
    \/ Catch
    \/ \E ref \in RefInputs : check_exit(ref)
    \/ check_exit_throw

Spec == Init /\ [][Next]_vars

(* ------------------- StudentImplementation: actions ------------------- *)
\* stu = StudentImplementation.from_footprint(footprint, steps)
MakeFromFootprint(footprint, steps) ==
    /\ stu' = from_footprint(footprint, steps)
    /\ out' = [NoOut EXCEPT !.op = "from_footprint"]
    /\ alias' = TRUE
    /\ UNCHANGED <<stack, tracing, observed, exc, ev, file>>

\* stu.check(ref, group=group)
CallCheck(ref, group) ==
    /\ stu # NoStu
    /\ LET r == StudentImplementation_check(stu, ref, group)
       IN  out' = [NoOut EXCEPT !.op = "check", !.ref = ref, !.group = group,
                                !.err = r.err, !.ret = r.ret, !.calls = r.calls,
                                !.stuBefore = stu]
    /\ UNCHANGED <<stu, stack, tracing, observed, exc, ev, file, alias>>

NextStu ==
    \/ \E fp \in Footprints, steps \in 0..MaxFp : MakeFromFootprint(fp, steps)
    \/ \E ref \in RefInputs, group \in Groups : CallCheck(ref, group)

SpecStu == Init /\ [][NextStu]_vars

(* ------------- construction and serialization: actions ---------------- *)
\* stu = StudentImplementation(path_or_nb); fp is what the engine observes
\* if the notebook is executed. A constructor that raises binds nothing.
Construct(path_or_nb, fp) ==
    /\ LET r == StudentImplementation_init(path_or_nb, fp)
       IN  /\ out' = [NoOut EXCEPT !.op = "init", !.arg = path_or_nb, !.err = r.err,
                                   !.executes = r.executes, !.stuBefore = stu]
           /\ stu' = IF r.err = "none" THEN r.self ELSE stu
           /\ alias' = IF r.err = "none" THEN FALSE ELSE alias
    /\ UNCHANGED <<stack, tracing, observed, exc, ev, file>>

\* data = stu.dumps()
CallDumps ==
    /\ stu # NoStu
    /\ out' = [NoOut EXCEPT !.op = "dumps", !.data = dumps(stu), !.stuBefore = stu]
    /\ UNCHANGED <<stu, stack, tracing, observed, exc, ev, file, alias>>

\* The texts handed to loads: what dumps returned, and that text cut short
\* by one character or by one group of four.
Texts(data) ==
    {data, SubSeq(data, 1, Len(data) - 1), SubSeq(data, 1, Len(data) - 4)}

\* stu = StudentImplementation.loads(data)
CallLoads(data) ==
    /\ out.op = "dumps"
    /\ data \in Texts(out.data)
    /\ LET r == loads(data)
       IN  /\ out' = [NoOut EXCEPT !.op = "loads", !.data = data, !.err = r.err,
                                   !.intact = (data = out.data), !.stuBefore = stu]
           /\ stu' = IF r.err = "none" THEN r.obj ELSE stu
           /\ alias' = IF r.err = "none" THEN FALSE ELSE alias
    /\ UNCHANGED <<stack, tracing, observed, exc, ev, file>>

\* stu.dump()
CallDump ==
    /\ stu # NoStu
    /\ file' = dump(stu)
    /\ out' = [NoOut EXCEPT !.op = "dump", !.stuBefore = stu]
    /\ UNCHANGED <<stu, stack, tracing, observed, exc, ev, alias>>

\* stu = StudentImplementation.load("student.pkl")
CallLoad ==
    /\ LET r == load(file)
       IN  /\ out' = [NoOut EXCEPT !.op = "load", !.err = r.err, !.stuBefore = stu]
           /\ stu' = IF r.err = "none" THEN r.obj ELSE stu
           /\ alias' = IF r.err = "none" THEN FALSE ELSE alias
    /\ UNCHANGED <<stack, tracing, observed, exc, ev, file>>

\* The caller of from_footprint appends to the list it passed: stu.values is
\* that same list (from_footprint stores the reference, it makes no copy).
CallerAppend(ts) ==
    /\ alias
    /\ stu # NoStu
    /\ Len(stu.values) < MaxFp
    /\ stu.values # <<>> => stu.values[Len(stu.values)][2] <= ts
    /\ stu' = [stu EXCEPT !.values = Append(@, <<"v", ts>>)]
    /\ out' = [NoOut EXCEPT !.op = "append", !.stuBefore = stu]
    /\ UNCHANGED <<stack, tracing, observed, exc, ev, file, alias>>

NextSer ==
    \/ \E fp \in Footprints, steps \in 0..MaxFp : MakeFromFootprint(fp, steps)
    \/ \E a \in InitArgs, fp \in Footprints : Construct(a, fp)
    \/ CallDumps
    \/ \E data \in Texts(out.data) : CallLoads(data)
    \/ CallDump
    \/ CallLoad
    \/ \E ts \in 0..MaxFp : CallerAppend(ts)

SpecSer == Init /\ [][NextSer]_vars

(* ------------------------ plagiarism: actions ------------------------- *)
MaxPeers == 2

\* The submissions of the other students.
Peers ==
    {from_footprint(<<>>, 0), from_footprint(<<<<"v", 0>>>>, 0),
     from_footprint(<<<<"v", 1>>>>, 1)}

\* stu.check_plagiarism(student_impls, **kwargs)
CallCheckPlagiarism(student_impls, kwargs) ==
    /\ stu # NoStu
    /\ LET r == check_plagiarism(stu, student_impls, kwargs)
       IN  out' = [NoOut EXCEPT !.op = "check_plagiarism", !.peers = student_impls,
                                !.kwargs = kwargs, !.results = r.ret,
                                !.calls = r.calls, !.stuBefore = stu]
    /\ UNCHANGED <<stu, stack, tracing, observed, exc, ev, file, alias>>

NextPlag ==
    \/ \E fp \in Footprints, steps \in 0..MaxFp : MakeFromFootprint(fp, steps)
    \/ \E peers \in SeqsUpTo(Peers, MaxPeers), kwargs \in KwargSets :
            CallCheckPlagiarism(peers, kwargs)

SpecPlag == Init /\ [][NextPlag]_vars

(* ============================ the claims ============================== *)
\* The shapes the inline check is specified to accept: one reference, one
\* identifier string, or a non-empty list of references or of strings.
IsCollection(ref) == ref.shape \in {"list", "tuple"}
EmptyCollection(ref) == IsCollection(ref) /\ ref.items = <<>>
AcceptedShape(ref) ==
    \/ IsRefImpl(ref)
    \/ IsStr(ref)
    \/ IsList(ref) /\ ref.items # <<>> /\ (AllRefs(ref.items) \/ AllStrs(ref.items))

\* A ref that must be rejected whichever way a non-list ordered collection
\* is read: an empty collection, a collection that is not uniformly
\* references or uniformly strings, or an object of another type.
RejectedShape(ref) ==
    \/ EmptyCollection(ref)
    \/ IsCollection(ref) /\ ~AllRefs(ref.items) /\ ~AllStrs(ref.items)
    \/ ref.shape = "obj" /\ ref.items[1].k = "other"

\* The list of references a ref of an accepted shape stands for.
ExpectedRefs(ref) ==
    IF IsRefImpl(ref) THEN <<ref.items[1]>>
    ELSE IF IsStr(ref) THEN <<Load(ref.items[1])>>
    ELSE [i \in 1..Len(ref.items) |->
            IF ref.items[i].k = "str" THEN Load(ref.items[i]) ELSE ref.items[i]]

\* The largest timestamp of a footprint, 0 for the empty one.
StepCount(fp) ==
    IF fp = <<>> THEN 0
    ELSE CHOOSE m \in {fp[i][2] : i \in 1..Len(fp)} :
            \A i \in 1..Len(fp) : fp[i][2] <= m

\* A call of the inline check has just ended (at entry or at exit) and the
\* argument it was called with is known.
Ended == ev.op \in {"enter", "exit"} /\ ev.arg # Unread

\* C1: a non-nested inline check that activated tracing has deactivated it
\* when its block has been left, whether the block completed or raised.
C1_ScopedRelease ==
    (ev.op = "exit" /\ ~ev.nested /\ ev.on) => (ev.off /\ ev.after = NoTrace)

\* C2: an inline check entered while tracing is active creates no collector
\* and never calls tracing_on, neither before nor after its block.
C2_SingleOwner ==
    (ev.op \in {"enter", "exit"} /\ ev.nested) => (~ev.created /\ ~ev.on)

\* C3: a nested inline check with a valid ref (a string or a list; a single
\* reference is the case of C5) whose block completes ends
\* without an error of its own and without a report, leaves the outer
\* collector the active one, and the outer check then reports over every
\* observation made during its block.
C3_NestedNoOp ==
    /\ (ev.op = "exit" /\ ev.nested /\ ~ev.raised
            /\ AcceptedShape(ev.arg) /\ ~IsRefImpl(ev.arg))
          => (ev.err = "none" /\ ~ev.printed /\ ev.after = ev.before)
    /\ (ev.op = "exit" /\ ~ev.nested /\ ~ev.raised
            /\ IsList(ev.norm) /\ ev.blockObs # <<>>)
          => (ev.off /\ ev.printed /\ ev.collected = ev.blockObs)

\* C4: every rejected ref is rejected before create_collector or tracing_on
\* is called and before the block runs.
C4_FailFast ==
    (Ended /\ ~ev.raised /\ RejectedShape(ev.arg))
        => (ev.err \in {"ValueError", "TypeError"}
            /\ ~ev.created /\ ~ev.on /\ ~ev.blockRan)

\* C5: a non-nested entry with a ref of one of the four accepted shapes
\* reaches Instrumenting with `ref` normalised to the list of references it
\* stands for, in input order.
C5_Normalization ==
    (ev.op = "enter" /\ ev.arg # Unread /\ AcceptedShape(ev.arg))
        => (ev.err = "none" /\ ev.on /\ ev.norm = ListOf(ExpectedRefs(ev.arg)))

\* C6: an empty collection fails with ValueError, every other rejected ref
\* with TypeError, and none of them reaches Instrumenting.
C6_Taxonomy ==
    (Ended /\ ~ev.raised /\ RejectedShape(ev.arg))
        => (/\ ev.err = (IF EmptyCollection(ev.arg) THEN "ValueError" ELSE "TypeError")
            /\ ~ev.on)

\* C7: when the block of a non-nested inline check completes, the artifact
\* is built from the collected footprint with step count the largest
\* timestamp, 0 when nothing was observed, and an empty footprint is still
\* reported on.
C7_StepCount ==
    (ev.op = "exit" /\ ~ev.nested /\ ~ev.raised)
        => (/\ ev.built
            /\ ev.stu.values = ev.collected
            /\ ev.stu.steps = StepCount(ev.collected)
            /\ (ev.collected = <<>> /\ IsList(ev.norm)) => ev.printed)

\* C8: a report is printed only at exit, after tracing_off and with tracing
\* inactive, only when the block did not raise, and it holds one entry per
\* reference of the normalised list, in that order: the messages of that
\* reference's Result over the collected footprint.
C8_ReportOrder ==
    /\ ev.printed =>
        /\ ev.op = "exit" /\ ~ev.raised
        /\ ev.off /\ ev.traceAtPrint = NoTrace /\ ~currently_tracing
        /\ IsList(ev.norm)
        /\ Len(ev.report) = Len(ev.norm.items)
        /\ \A i \in 1..Len(ev.norm.items) :
              ev.report[i] = Messages(Run(ev.norm.items[i], ev.collected, "None"))
    /\ (ev.op = "exit" /\ ev.raised) => ~ev.printed

\* A report over two different references has been printed.
C8_Witness ==
    /\ ev.printed
    /\ Len(ev.report) = 2
    /\ ev.norm.items[1] # ev.norm.items[2]
    /\ ev.collected # <<>>

\* C9: check with one reference runs it once on the artifact's footprint and
\* returns the bare Result; with a list of references it runs each once, in
\* order, on the same footprint and group and returns the list of their
\* Results, a one-element list included.
C9_DispatchShape ==
    out.op = "check" =>
        /\ IsRefImpl(out.ref) =>
              /\ out.err = "none"
              /\ out.ret = [shape |-> "result",
                            items |-> <<Run(out.ref.items[1], stu.values, out.group)>>]
              /\ out.calls = out.ret.items
        /\ (IsList(out.ref) /\ AllRefs(out.ref.items)) =>
              /\ out.err = "none"
              /\ out.ret.shape = "list"
              /\ Len(out.ret.items) = Len(out.ref.items)
              /\ \A i \in 1..Len(out.ref.items) :
                    out.ret.items[i] = Run(out.ref.items[i], stu.values, out.group)
              /\ out.calls = out.ret.items

\* check has returned for a list of two different references, and for a
\* one-element list, over a non-empty footprint.
C9_Witness ==
    /\ out.op = "check" /\ out.err = "none"
    /\ IsList(out.ref) /\ Len(out.ref.items) = 2
    /\ out.ref.items[1] # out.ref.items[2]
    /\ out.group = "g"
    /\ stu.values # <<>>

\* C10: check with a ref that is neither a reference nor an ordered
\* collection of references raises TypeError, runs no reference and leaves
\* the artifact as it was.
C10_RejectsOtherShapes ==
    (out.op = "check" /\ ~IsRefImpl(out.ref)
        /\ ~(IsCollection(out.ref) /\ AllRefs(out.ref.items)))
        => (out.err = "TypeError" /\ out.calls = <<>> /\ stu = out.stuBefore)

\* C11: check with an empty list of references raises ValueError instead of
\* returning an empty list of Results.
C11_EmptyReferenceSet ==
    (out.op = "check" /\ out.ref = ListOf(<<>>)) => out.err = "ValueError"

\* C17: every inline check entered with a valid ref (a string or a list of
\* references or strings) whose block completes has yielded exactly once
\* when it ends, and ends without an exception of its own (a non-nested
\* check that observed nothing is the case of C7).
C17_YieldsOnce ==
    (ev.op = "exit" /\ ~ev.raised
        /\ AcceptedShape(ev.arg) /\ ~IsRefImpl(ev.arg)
        /\ (ev.nested \/ ev.collected # <<>>))
        => (ev.yields = 1 /\ ev.err = "none")

\* Two artifacts give the same outcome of check for every ref and group.
SameChecks(a, b) ==
    \A ref \in RefInputs, group \in Groups :
        StudentImplementation_check(a, ref, group) = StudentImplementation_check(b, ref, group)

\* C12: an artifact restored by loads from the text dumps returned, or by
\* load from the file dump wrote, has the footprint, the step count and the
\* notebook metadata of the artifact that was serialized, gives the same
\* outcome of check for every ref and group, and is restored without a call
\* of execute_notebook.
C12_RoundTrip ==
    /\ (out.op = "loads" /\ out.intact)
        => (out.err = "none" /\ stu = out.stuBefore /\ out.executes = <<>>
            /\ SameChecks(stu, out.stuBefore))
    /\ (out.op = "load" /\ file.exists)
        => (out.err = "none" /\ stu = file.of /\ out.executes = <<>>
            /\ SameChecks(stu, file.of))

C12_Witness ==
    /\ out.op = "loads" /\ out.intact /\ out.err = "none"
    /\ stu.nb # "None" /\ stu.values # <<>> /\ file.exists

\* C13: every artifact, however it was made, has a step count equal to the
\* largest timestamp of its footprint, and 0 when the footprint is empty.
C13_StepCountInvariant ==
    stu # NoStu => stu.steps = StepCount(stu.values)

\* C14: the constructor called with an argument that is neither None, a
\* path string nor a notebook document raises TypeError, makes no call of
\* execute_notebook and binds no artifact.
C14_TypeErrorBeforeExecution ==
    (out.op = "init" /\ out.arg.k \notin {"None", "str", "nb"})
        => (out.err = "TypeError" /\ out.executes = <<>> /\ stu = out.stuBefore)

C14_Witness ==
    out.op = "init" /\ out.arg = OtherObj /\ out.err = "TypeError" /\ stu # NoStu

\* C15: check_plagiarism calls create_references once, with the one-element
\* list [self] and the options, then get_impl_results once with that one
\* reference, the peers and the same options; its result has one entry per
\* peer, entry i being the result of that reference on peer i.
C15_Plagiarism ==
    out.op = "check_plagiarism" =>
        LET made == create_references(<<out.stuBefore>>, out.kwargs)
        IN  /\ Len(out.calls) = 2
            /\ out.calls[1] =
                PlagCall("create_references", NoSynth, <<out.stuBefore>>, out.kwargs)
            /\ out.calls[2] =
                PlagCall("get_impl_results", made[1], out.peers, out.kwargs)
            /\ Len(out.results) = Len(out.peers)
            /\ \A i \in 1..Len(out.peers) :
                out.results[i] =
                    [ref |-> made[1], impl |-> out.peers[i], kwargs |-> out.kwargs]

C15_Witness ==
    /\ out.op = "check_plagiarism"
    /\ Len(out.peers) = 2 /\ out.peers[1] # out.peers[2]
    /\ out.kwargs # NoKwargs
    /\ out.stuBefore.values # <<>>

\* C16: once made, an artifact keeps its footprint, step count and notebook
\* metadata: neither dumps, dump nor anything the supplier of the footprint
\* does afterwards changes them.
C16_Immutable ==
    out.op \in {"dumps", "dump", "append"} => stu = out.stuBefore

====
